---- MODULE Spec2Model ----
(***************************************************************************)
(* Recipe backend (backend/api, backend/recipes, backend/users): the       *)
(* recipe write workflow, the favorite / shopping-cart relation toggle,    *)
(* the shopping-list aggregation, subscriptions, the recipe list filters   *)
(* and the short links, as a state machine over the database tables and    *)
(* the cache.                                                              *)
(***************************************************************************)
EXTENDS Integers, Sequences, FiniteSets, TLC

VARIABLES
    Recipe,              \* table recipes_recipe: pk -> row
    RecipeIngredient,    \* table recipes_recipeingredient, rows in insertion order
    RecipeTag,           \* table recipes_recipetag, rows in insertion order
    FavoriteRecipe,      \* table recipes_favoriterecipe, rows in insertion order
    ShoppingCartRecipe,  \* table recipes_shoppingcartrecipe, rows in insertion order
    next_pk,             \* next primary key of recipes_recipe
    Subscription,        \* table users_subscription, rows in insertion order
    cache,               \* django.core.cache: key -> [value, timeout]
    links,               \* the short links answered so far, each with its URL
                         \* and whether the URL had been asked for before
    response,            \* the request last answered, with its answer
    before,              \* the tables as they were when that request came in
    worker               \* requests in flight, one slot per server worker

db == <<Recipe, RecipeIngredient, RecipeTag, FavoriteRecipe, ShoppingCartRecipe, next_pk,
        Subscription, cache>>
vars == <<Recipe, RecipeIngredient, RecipeTag, FavoriteRecipe, ShoppingCartRecipe,
          next_pk, Subscription, cache, links, response, before, worker>>

(***************************************************************************)
(* Bounds and fixed reference data.                                        *)
(***************************************************************************)
MaxRecipes == 2
MaxAmount == 2

MIN_INGREDIENT_AMOUNT == 1

Users == {"u1", "u2"}
AnonymousUser == "anon"
Requesters == Users \cup {AnonymousUser}

\* Ingredient rows: unique per (name, measurement_unit), so one name may
\* occur under two units.
Ingredient ==
    <<[name |-> "flour", measurement_unit |-> "g"],
      [name |-> "eggs", measurement_unit |-> "pcs"],
      [name |-> "flour", measurement_unit |-> "cup"]>>
IngredientIds == DOMAIN Ingredient

Tag == <<[name |-> "Breakfast", slug |-> "breakfast"],
         [name |-> "Dinner", slug |-> "dinner"]>>
TagIds == DOMAIN Tag

\* Ingredient names in alphabetical order (ORDER BY ingredient__name).
Collation == <<"eggs", "flour">>
NoValue == "None"
Amounts == {MIN_INGREDIENT_AMOUNT, MaxAmount}

(***************************************************************************)
(* Helpers on sequences.                                                   *)
(***************************************************************************)
Range(s) == {s[i] : i \in DOMAIN s}

NoRepeat(s) == \A i, j \in DOMAIN s : i # j => s[i] # s[j]

Map(s, F(_)) == [i \in DOMAIN s |-> F(s[i])]

RECURSIVE SortedSeq(_)
SortedSeq(S) ==
    IF S = {} THEN <<>>
    ELSE LET m == CHOOSE x \in S : \A y \in S : x <= y
         IN <<m>> \o SortedSeq(S \ {m})

SeqsUpTo2(S) == {<<>>} \cup {<<a>> : a \in S} \cup {<<a, b>> : a, b \in S}

(***************************************************************************)
(* Response status codes.                                                  *)
(***************************************************************************)
HTTP_200_OK == 200
HTTP_201_CREATED == 201
HTTP_204_NO_CONTENT == 204
HTTP_400_BAD_REQUEST == 400
HTTP_401_UNAUTHORIZED == 401
HTTP_403_FORBIDDEN == 403
HTTP_404_NOT_FOUND == 404
HTTP_500_INTERNAL_SERVER_ERROR == 500

(***************************************************************************)
(* Request payloads of the recipe endpoints.  A payload is the dict the    *)
(* field-level validation hands to validate(): keys holds the fields that  *)
(* are present, an absent field carries its empty value.                   *)
(***************************************************************************)
FieldNames == {"recipe_ingredients", "tags", "image", "name", "text", "cooking_time"}

IngredientItems == [ingredient : IngredientIds, amount : Amounts]

Payload(ks, ings, tgs, img, nm, txt, ct) ==
    [keys |-> ks,
     recipe_ingredients |-> IF "recipe_ingredients" \in ks THEN ings ELSE <<>>,
     tags |-> IF "tags" \in ks THEN tgs ELSE <<>>,
     image |-> IF "image" \in ks THEN img ELSE NoValue,
     name |-> IF "name" \in ks THEN nm ELSE NoValue,
     text |-> IF "text" \in ks THEN txt ELSE NoValue,
     cooking_time |-> IF "cooking_time" \in ks THEN ct ELSE 0]

\* dict.get(key, default)
get(data, key, default) ==
    IF key \in data.keys THEN data[key] ELSE default

\* Serializer.run_validation, field part: every declared field is required
\* unless the serializer is partial (PATCH).
MissingRequired(data, partial) ==
    ~partial /\ data.keys # FieldNames

OK == "ok"
NoImage == "Net izobrazheniya."
NoTags == "Neobhodimo ukazat hotya by odin teg."
NoIngredients == "Neobhodimo ukazat hotya by odin ingredient."
IngredientsNotUnique == "Ingredienty dolzhny byt unikalnymi."
TagsNotUnique == "Tegi dolzhny byt unikalnymi."
FieldRequired == "This field is required."
NotAuthenticatedDetail == "Polzovatel ne autentificirovan."
PermissionDeniedDetail == "You do not have permission to perform this action."
CredentialsNotProvided == "Authentication credentials were not provided."
NotFoundDetail == "Not found."
IntegrityError == "IntegrityError"
AlreadyAdded == "Recept uzhe dobavlen."
NotInList == "Recept ne nayden v spiske"

\* validate without the check of repeated ingredients.
validate_repeats_allowed(data) ==
    LET tags == get(data, "tags", <<>>)
        ingredients == get(data, "recipe_ingredients", <<>>)
        image == get(data, "image", NoValue)
    IN  IF image = NoValue THEN NoImage
        ELSE IF tags = <<>> THEN NoTags
        ELSE IF ingredients = <<>> THEN NoIngredients
        ELSE IF Cardinality(Range(tags)) # Len(tags) THEN TagsNotUnique
        ELSE OK

\* validate without the check of an empty tag list.
validate_tags_optional(data) ==
    LET tags == get(data, "tags", <<>>)
        ingredients == get(data, "recipe_ingredients", <<>>)
        image == get(data, "image", NoValue)
        ingredients_ids == Map(ingredients, LAMBDA i : i.ingredient)
    IN  IF image = NoValue THEN NoImage
        ELSE IF ingredients = <<>> THEN NoIngredients
        ELSE IF Cardinality(Range(ingredients_ids)) # Len(ingredients_ids)
             THEN IngredientsNotUnique
        ELSE IF Cardinality(Range(tags)) # Len(tags) THEN TagsNotUnique
        ELSE OK

\* CreateUpdateRecipeSerializer.validate
validate(data) ==
    LET tags == get(data, "tags", <<>>)
        ingredients == get(data, "recipe_ingredients", <<>>)
        image == get(data, "image", NoValue)
        ingredients_ids == Map(ingredients, LAMBDA i : i.ingredient)
    IN  IF image = NoValue THEN NoImage
        ELSE IF tags = <<>> THEN NoTags
        ELSE IF ingredients = <<>> THEN NoIngredients
        ELSE IF Cardinality(Range(ingredients_ids)) # Len(ingredients_ids)
             THEN IngredientsNotUnique
        ELSE IF Cardinality(Range(tags)) # Len(tags) THEN TagsNotUnique
        ELSE OK

(***************************************************************************)
(* Table operations.                                                       *)
(***************************************************************************)
\* add_ingredients without the delete: the new rows join the old ones.
delete_ingredients_skipped(table, recipe) == table

\* RecipeIngredient.objects.filter(recipe=recipe).delete()
delete_ingredients(table, recipe) ==
    SelectSeq(table, LAMBDA row : row.recipe # recipe)

\* add_ingredients storing the position in the list as the amount.
ingredient_rows_position(recipe, ingredients) ==
    [n \in DOMAIN ingredients |->
        [recipe |-> recipe, ingredient |-> ingredients[n].ingredient, amount |-> n]]

\* The rows add_ingredients builds for bulk_create.
ingredient_rows(recipe, ingredients) ==
    Map(ingredients, LAMBDA i :
        [recipe |-> recipe, ingredient |-> i.ingredient, amount |-> i.amount])

\* UniqueConstraint(fields=['ingredient', 'recipe'])
unique_recipe_ingredient(table) ==
    \A i, j \in DOMAIN table :
        (i # j) => ~(table[i].recipe = table[j].recipe
                     /\ table[i].ingredient = table[j].ingredient)

\* bulk_create is one INSERT statement: all the rows or an IntegrityError.
bulk_create_ok(table, rows) == unique_recipe_ingredient(table \o rows)

\* recipe.tags.set(tags): rows of tags not in the new list are removed, rows
\* of tags already associated stay, the missing ones are added once each.
tags_set(table, recipe, tags) ==
    LET old_ids == {row.tag : row \in {r \in Range(table) : r.recipe = recipe}}
        new_ids == Range(tags)
        kept == SelectSeq(table, LAMBDA row :
                    row.recipe # recipe \/ row.tag \in new_ids)
        added == SortedSeq(new_ids \ old_ids)
    IN  kept \o Map(added, LAMBDA t : [recipe |-> recipe, tag |-> t])

\* model.objects.filter(user=user, recipe=recipe).exists()
exists(table, user, recipe) ==
    \E i \in DOMAIN table : table[i].user = user /\ table[i].recipe = recipe

(***************************************************************************)
(* Representations.                                                        *)
(***************************************************************************)
\* RecipeIngredientSerializer
ingredient_representation(row) ==
    [id |-> row.ingredient,
     name |-> Ingredient[row.ingredient].name,
     measurement_unit |-> Ingredient[row.ingredient].measurement_unit,
     amount |-> row.amount]

\* RecipeTagSerializer
tag_representation(row) ==
    [id |-> row.tag, name |-> Tag[row.tag].name, slug |-> Tag[row.tag].slug]

\* RecipeSerializer(instance, context).data, read from the given tables.
RecipeData(recipes, ri, rt, fav, cart, id, user) ==
    [id |-> id,
     tags |-> Map(SelectSeq(rt, LAMBDA row : row.recipe = id), tag_representation),
     author |-> recipes[id].author,
     ingredients |-> Map(SelectSeq(ri, LAMBDA row : row.recipe = id),
                         ingredient_representation),
     is_favorited |-> user # AnonymousUser /\ exists(fav, user, id),
     is_in_shopping_cart |-> user # AnonymousUser /\ exists(cart, user, id),
     name |-> recipes[id].name,
     image |-> recipes[id].image,
     text |-> recipes[id].text,
     cooking_time |-> recipes[id].cooking_time]

NoData == Payload({}, <<>>, <<>>, NoValue, NoValue, NoValue, 0)

(***************************************************************************)
(* Requests and the steps of their handlers.  A request is                 *)
(* [view, method, user, id, data]; a handler is the sequence of the steps  *)
(* its code runs, each step one statement against the database.  exec      *)
(* gives the effect of one step on the tables: the handler goes on, or it  *)
(* ends with a response (a return, or an exception turned into a response  *)
(* by the framework; what was written before stays written).               *)
(***************************************************************************)
Request(view, method, user, id, data, plan) ==
    [view |-> view, method |-> method, user |-> user, id |-> id, data |-> data,
     plan |-> plan]

Store ==
    [Recipe |-> Recipe, RecipeIngredient |-> RecipeIngredient,
     RecipeTag |-> RecipeTag, FavoriteRecipe |-> FavoriteRecipe,
     ShoppingCartRecipe |-> ShoppingCartRecipe, next_pk |-> next_pk,
     Subscription |-> Subscription, cache |-> cache]

NoInstance ==
    [pk |-> 0, author |-> NoValue, name |-> NoValue, image |-> NoValue,
     text |-> NoValue, cooking_time |-> 0]

Cont(store, instance) ==
    [store |-> store, done |-> FALSE, status |-> 0, detail |-> OK,
     body |-> <<>>, instance |-> instance]

Done(store, status, detail, body) ==
    [store |-> store, done |-> TRUE, status |-> status, detail |-> detail,
     body |-> body, instance |-> NoInstance]

\* RecipeViewSet.get_serializer_class / ModelViewSet.create and update with
\* CreateUpdateRecipeSerializer, and the relation and download actions.
Program(req) ==
    CASE req.view = "recipes" /\ req.method = "POST" ->
            <<"validate", "create", "delete", "bulk_create", "tags_set", "represent">>
      [] req.view = "recipes" /\ req.method \in {"PUT", "PATCH"} ->
            <<"get_object", "validate", "tags_set", "delete", "bulk_create",
              "save", "represent">>
      [] req.view \in {"favorite", "shopping_cart"} /\ req.method = "POST" ->
            <<"authenticate", "get_recipe", "validate_relation", "save_relation",
              "represent_short">>
      [] req.view \in {"favorite", "shopping_cart"} /\ req.method = "DELETE" ->
            <<"authenticate", "get_recipe", "exists", "delete_relation">>
      [] req.view = "recipes" /\ req.method = "DELETE" -> <<"get_object", "destroy">>
      [] req.view = "get_short_link" -> <<"cache_set", "short_link">>
      [] req.view = "list" -> <<"list">>
      [] req.view = "subscribe" /\ req.method = "POST" ->
            <<"authenticate", "get_author", "validate_subscription",
              "save_subscription", "represent_subscription">>
      [] req.view = "subscribe" /\ req.method = "DELETE" ->
            <<"authenticate", "get_author", "delete_subscription">>
      [] OTHER -> <<"authenticate", "download_shopping_cart">>

\* Both relation actions working on the favorites.
Model_favorite_only(req) == "FavoriteRecipe"

\* The membership table a relation action works on.
Model(req) ==
    IF req.view = "favorite" THEN "FavoriteRecipe" ELSE "ShoppingCartRecipe"

\* The database without the constraint on the membership tables.
unique_user_recipe_unchecked(table) == TRUE

\* UniqueConstraint(fields=['user', 'recipe']) of AbstractFavoriteShoppingCart
unique_user_recipe(table) ==
    \A i, j \in DOMAIN table :
        (i # j) => ~(table[i].user = table[j].user
                     /\ table[i].recipe = table[j].recipe)

\* AbstractRecipeActionSerializer.validate that never finds the pair.
recipe_action_validate_blind(table, user, recipe) == OK

\* AbstractRecipeActionSerializer.validate
recipe_action_validate(table, user, recipe) ==
    IF exists(table, user, recipe) THEN AlreadyAdded ELSE OK

\* A delete that filters on the recipe alone.
delete_relation_any_user(table, user, recipe) ==
    SelectSeq(table, LAMBDA row : row.recipe # recipe)

\* model.objects.filter(user=user, recipe=recipe).delete()
delete_relation(table, user, recipe) ==
    SelectSeq(table, LAMBDA row : ~(row.user = user /\ row.recipe = recipe))

\* `if tags:` / `if ingredients:` of update; create passes both lists on.
Supplied(req, field) ==
    req.method = "POST" \/ req.data[field] # <<>>

\* An update that takes an absent field for an empty one.
setattrs_defaulting(instance, data) ==
    [instance EXCEPT !.name = data.name, !.image = data.image,
                     !.text = data.text, !.cooking_time = data.cooking_time]

\* ModelSerializer.update: setattr for every remaining validated field.
setattrs(instance, data) ==
    [instance EXCEPT
        !.name = IF "name" \in data.keys THEN data.name ELSE @,
        !.image = IF "image" \in data.keys THEN data.image ELSE @,
        !.text = IF "text" \in data.keys THEN data.text ELSE @,
        !.cooking_time = IF "cooking_time" \in data.keys THEN data.cooking_time ELSE @]

\* A create that takes any requester for a user.
is_authenticated_anyone(user) == TRUE

\* request.user.is_authenticated
is_authenticated(user) == user # AnonymousUser

SAFE_METHODS == {"GET", "HEAD", "OPTIONS"}

\* A permission that asks for a signed-in user only.
has_object_permission_signed_in(method, author, user) ==
    method \in SAFE_METHODS \/ user # AnonymousUser

\* IsAuthorOrReadOnly.has_object_permission
has_object_permission(method, author, user) ==
    method \in SAFE_METHODS \/ author = user

\* instance.delete(): the recipe row and, by on_delete=CASCADE, the rows
\* of the four tables that refer to it.
destroy(store, id) ==
    [store EXCEPT
        !.Recipe = [pk \in DOMAIN @ \ {id} |-> @[pk]],
        !.RecipeIngredient = SelectSeq(@, LAMBDA row : row.recipe # id),
        !.RecipeTag = SelectSeq(@, LAMBDA row : row.recipe # id),
        !.FavoriteRecipe = SelectSeq(@, LAMBDA row : row.recipe # id),
        !.ShoppingCartRecipe = SelectSeq(@, LAMBDA row : row.recipe # id)]

RecipeRow(instance) ==
    [author |-> instance.author, name |-> instance.name, image |-> instance.image,
     text |-> instance.text, cooking_time |-> instance.cooking_time]

(***************************************************************************)
(* Subscriptions (UserViewSet.subscribe).                                  *)
(***************************************************************************)
\* An id in the URL that no user has.
NoUser == "u9"

SelfSubscription == "Nelzya podpisatsya na samogo sebya."
AlreadySubscribed == "Vy uzhe podpisany na etogo avtora."
NoSubscription == "Podpiska otsutstvuet"
DjangoValidationError == "ValidationError"

\* Subscription.objects.filter(user=user, author=author).exists()
subscribed(table, user, author) ==
    \E i \in DOMAIN table : table[i].user = user /\ table[i].author = author

\* validate without the check of the requester's own id.
subscription_validate_self_allowed(table, user, author) ==
    IF subscribed(table, user, author) THEN AlreadySubscribed ELSE OK

\* validate without the check of an existing subscription.
subscription_validate_repeat_allowed(table, user, author) ==
    IF user = author THEN SelfSubscription ELSE OK

\* CreateSubscriptionSerializer.validate
subscription_validate(table, user, author) ==
    IF user = author THEN SelfSubscription
    ELSE IF subscribed(table, user, author) THEN AlreadySubscribed
    ELSE OK

\* Subscription.save: the check before the row is written.
subscription_save(user, author) ==
    IF user = author THEN DjangoValidationError ELSE OK

\* UniqueConstraint(fields=['user', 'author'], name='unique_user_author')
unique_user_author(table) ==
    \A i, j \in DOMAIN table :
        (i # j) => ~(table[i].user = table[j].user
                     /\ table[i].author = table[j].author)

\* Subscription.objects.filter(user=user, author=author).delete(): the
\* table without the rows, and the number of rows deleted.
delete_subscription(table, user, author) ==
    LET rest == SelectSeq(table, LAMBDA row :
                    ~(row.user = user /\ row.author = author))
    IN  [table |-> rest, deleted |-> Len(table) - Len(rest)]

Reverse(s) == [i \in DOMAIN s |-> s[Len(s) + 1 - i]]

\* Recipe.objects.all() under Meta.ordering = ('-pub_date',): the newest
\* first; primary keys grow with the publication time.
recipes_all(recipes) == Reverse(SortedSeq(DOMAIN recipes))

\* SubscriptionSerializer(author, context).data
SubscriptionData(store, author, user) ==
    LET recipes == SelectSeq(recipes_all(store.Recipe),
                             LAMBDA id : store.Recipe[id].author = author)
    IN  [id |-> author,
         is_subscribed |-> user # AnonymousUser
                           /\ subscribed(store.Subscription, user, author),
         recipes |-> Map(recipes, LAMBDA id :
                        [id |-> id, name |-> store.Recipe[id].name,
                         image |-> store.Recipe[id].image,
                         cooking_time |-> store.Recipe[id].cooking_time]),
         recipes_count |-> Len(recipes)]

(***************************************************************************)
(* Shopping list: RecipeIngredient joined with the cart rows of the user,  *)
(* grouped by (ingredient name, measurement unit), amounts summed, ordered *)
(* by name.  The order of groups of one name is the database's choice      *)
(* (plan).                                                                 *)
(***************************************************************************)
Header == "Spisok pokupok:\n\n"

\* A join with the cart rows of every user.
CartJoin_any_user(ri, cart, user) ==
    {<<i, j>> \in (DOMAIN ri) \X (DOMAIN cart) : cart[j].recipe = ri[i].recipe}

\* filter(recipe__cart_recipes__user=user): one joined row per pair of a
\* RecipeIngredient row and a cart row of the user for its recipe.
CartJoin(ri, cart, user) ==
    {<<i, j>> \in (DOMAIN ri) \X (DOMAIN cart) :
        cart[j].user = user /\ cart[j].recipe = ri[i].recipe}

GroupKey(row) ==
    <<Ingredient[row.ingredient].name, Ingredient[row.ingredient].measurement_unit>>

\* An aggregation that reports one row's amount for the whole group.
SumAmount_one_row(ri, joined) ==
    IF joined = {} THEN 0
    ELSE ri[(CHOOSE q \in joined : TRUE)[1]].amount

RECURSIVE SumAmount(_, _)
SumAmount(ri, joined) ==
    IF joined = {} THEN 0
    ELSE LET p == CHOOSE q \in joined : TRUE
         IN  ri[p[1]].amount + SumAmount(ri, joined \ {p})

\* values(name, unit).annotate(ingredient_amount=Sum('amount'))
Aggregate(ri, cart, user) ==
    LET joined == CartJoin(ri, cart, user)
        keys == {GroupKey(ri[p[1]]) : p \in joined}
    IN  {[ingredient__name |-> k[1], ingredient__measurement_unit |-> k[2],
          ingredient_amount |->
              SumAmount(ri, {p \in joined : GroupKey(ri[p[1]]) = k})] : k \in keys}

Rank(name) == CHOOSE i \in DOMAIN Collation : Collation[i] = name

\* The orders order_by('ingredient__name') may return the groups in.
Orderings(items) ==
    {s \in [1..Cardinality(items) -> items] :
        /\ Range(s) = items
        /\ \A i, j \in DOMAIN s :
              i < j => Rank(s[i].ingredient__name) <= Rank(s[j].ingredient__name)}

FormatItem(item) ==
    item.ingredient__name \o " - " \o ToString(item.ingredient_amount) \o " "
        \o item.ingredient__measurement_unit

RECURSIVE Join(_, _)
Join(sep, lines) ==
    IF lines = <<>> THEN ""
    ELSE IF Len(lines) = 1 THEN lines[1]
    ELSE lines[1] \o sep \o Join(sep, Tail(lines))

Plans == {"first", "last"}

\* The ingredient table has at most two units of one name, so there are at
\* most two orderings: plan picks one of them.
PickOrdering(items, plan) ==
    LET all == Orderings(items)
        first == CHOOSE s \in all : TRUE
    IN  IF plan = "first" \/ all = {first} THEN first
        ELSE CHOOSE s \in all : s # first

\* RecipeViewSet.download_shopping_cart: the text of the response.
download_shopping_cart(ri, cart, user, plan) ==
    LET ingredients == PickOrdering(Aggregate(ri, cart, user), plan)
        shopping_list == Join("\n", Map(ingredients, FormatItem))
    IN  Header \o shopping_list

(***************************************************************************)
(* Recipe list filters.  RecipeViewSet names RecipeFilter, which in        *)
(* views.py is the class defined there: is_favorited and                   *)
(* is_in_shopping_cart are CharFilters, their value is the text of the     *)
(* query parameter.                                                        *)
(***************************************************************************)
\* django_filters EMPTY_VALUES, for a text value: the parameter is absent
\* or empty.
EMPTY_VALUES == {""}

Query(favorited, in_cart) ==
    [is_favorited |-> favorited, is_in_shopping_cart |-> in_cart]

\* `if value`: the truth value of a str.
truth(value) == value # ""

\* queryset.filter(favorite_recipes__user=user): the inner join, one row per
\* favorite row of the user for the recipe.
RECURSIVE filter_favorite_recipes(_, _, _)
filter_favorite_recipes(queryset, table, user) ==
    IF queryset = <<>> THEN <<>>
    ELSE LET id == Head(queryset)
             rows == SelectSeq(table, LAMBDA row :
                         row.user = user /\ row.recipe = id)
         IN  [i \in DOMAIN rows |-> id]
                \o filter_favorite_recipes(Tail(queryset), table, user)

\* filter_user_recipes that hands the anonymous requester the whole listing.
filter_user_recipes_anonymous_all(queryset, store, user, name, value) ==
    IF user = AnonymousUser THEN queryset
    ELSE IF name = "is_in_shopping_cart"
    THEN LET related_recipes ==
                 {row.recipe : row \in {r \in Range(store.ShoppingCartRecipe) :
                                           r.user = user}}
         IN  IF truth(value)
             THEN SelectSeq(queryset, LAMBDA id : id \in related_recipes)
             ELSE queryset
    ELSE IF truth(value)
         THEN filter_favorite_recipes(queryset, store.FavoriteRecipe, user)
         ELSE queryset

\* RecipeFilter.filter_user_recipes
filter_user_recipes(queryset, store, user, name, value) ==
    IF user = AnonymousUser THEN <<>>
    ELSE IF name = "is_in_shopping_cart"
    THEN LET related_recipes ==
                 {row.recipe : row \in {r \in Range(store.ShoppingCartRecipe) :
                                           r.user = user}}
         IN  IF truth(value)
             THEN SelectSeq(queryset, LAMBDA id : id \in related_recipes)
             ELSE queryset
    ELSE IF truth(value)
         THEN filter_favorite_recipes(queryset, store.FavoriteRecipe, user)
         ELSE queryset

\* Filter.filter for a filter with a method: an empty value leaves the
\* queryset alone, any other value goes to the method.
FilterMethod(queryset, store, user, name, value) ==
    IF value \in EMPTY_VALUES THEN queryset
    ELSE filter_user_recipes(queryset, store, user, name, value)

\* FilterSet.filter_queryset: the filters in the order they are declared
\* (no tags and no author in the query).
filter_queryset(store, req) ==
    LET in_cart == FilterMethod(recipes_all(store.Recipe), store, req.user,
                                "is_in_shopping_cart",
                                req.data.is_in_shopping_cart)
    IN  FilterMethod(in_cart, store, req.user, "is_favorited",
                     req.data.is_favorited)

(***************************************************************************)
(* Short links (RecipeViewSet.get_short_link): the md5 digest of the       *)
(* absolute URL of the recipe, cut to its first eight characters, is the   *)
(* key under which the URL is cached for a day.  Recipe URLs are taken to  *)
(* be routed under /api/.                                                  *)
(***************************************************************************)
Hosts == {"foodgram.example"}

\* Primary keys in the URL: the digests of the last two start with the same
\* eight characters.
LinkPks == {1, 51137, 105354}

TIMEOUT == 60 * 60 * 24

HexDigits == {"0", "1", "2", "3", "4", "5", "6", "7", "8", "9",
              "a", "b", "c", "d", "e", "f"}

\* request.build_absolute_uri(path)
build_absolute_uri(host, path) == "http://" \o host \o path

\* reverse('recipe-detail', args=[pk])
reverse_recipe_detail(pk) == "/api/recipes/" \o ToString(pk) \o "/"

full_url(req) ==
    build_absolute_uri(req.data.host, reverse_recipe_detail(req.data.pk))

\* request.build_absolute_uri('/s/').rstrip('/')
base_url(req) == build_absolute_uri(req.data.host, "/s")

\* hashlib.md5(s.encode()).hexdigest(), character by character.
md5_hexdigest(s) ==
    CASE s = "http://foodgram.example/api/recipes/1/" ->
             <<"6", "f", "a", "3", "5", "1", "0", "d", "8", "0", "6", "3", "5", "9", "0", "7",
               "3", "5", "5", "8", "9", "a", "c", "9", "8", "0", "e", "9", "8", "b", "b", "9">>
      [] s = "http://foodgram.example/api/recipes/51137/" ->
             <<"4", "b", "e", "b", "7", "8", "0", "4", "8", "b", "2", "8", "a", "2", "4", "8",
               "b", "9", "3", "c", "f", "6", "4", "e", "f", "1", "4", "9", "3", "c", "c", "0">>
      [] s = "http://foodgram.example/api/recipes/105354/" ->
             <<"4", "b", "e", "b", "7", "8", "0", "4", "2", "1", "8", "4", "b", "9", "a", "5",
               "2", "6", "b", "1", "4", "e", "9", "f", "7", "5", "d", "c", "6", "5", "3", "8">>

\* A code of the first seven characters.
short_code_seven(url) == SubSeq(md5_hexdigest(url), 1, 7)

\* hash_object.hexdigest()[:8]
short_code(url) == SubSeq(md5_hexdigest(url), 1, 8)

\* cache.add: an entry that is there is left as it is.
cache_set_keep_first(c, key, value, timeout) ==
    IF key \in DOMAIN c THEN c
    ELSE (key :> [value |-> value, timeout |-> timeout]) @@ c

\* cache.set(key, value, timeout): one atomic write of the key.
cache_set(c, key, value, timeout) ==
    (key :> [value |-> value, timeout |-> timeout]) @@ c

\* The cache after the given number of seconds: timeout counts the seconds
\* an entry has left, an entry with none left is gone.
expire(c, seconds) ==
    LET live == {key \in DOMAIN c : c[key].timeout > seconds}
    IN  [key \in live |-> [c[key] EXCEPT !.timeout = @ - seconds]]

\* f"{base_url}/{short_code}"
short_link(req) ==
    base_url(req) \o "/" \o Join("", short_code(full_url(req)))

exec(store, req, instance, step) ==
    CASE step = "validate" ->
            IF MissingRequired(req.data, req.method = "PATCH")
            THEN Done(store, HTTP_400_BAD_REQUEST, FieldRequired, <<>>)
            ELSE IF validate(req.data) # OK
            THEN Done(store, HTTP_400_BAD_REQUEST, validate(req.data), <<>>)
            ELSE Cont(store, instance)
      [] step = "create" ->
            IF ~is_authenticated(req.user)
            THEN Done(store, HTTP_401_UNAUTHORIZED, NotAuthenticatedDetail, <<>>)
            ELSE LET new == [pk |-> store.next_pk, author |-> req.user,
                             name |-> req.data.name, image |-> req.data.image,
                             text |-> req.data.text,
                             cooking_time |-> req.data.cooking_time]
                 IN  Cont([store EXCEPT
                              !.Recipe = (new.pk :> RecipeRow(new)) @@ @,
                              !.next_pk = @ + 1],
                          new)
      [] step = "get_object" ->
            IF req.id \notin DOMAIN store.Recipe
            THEN Done(store, HTTP_404_NOT_FOUND, NotFoundDetail, <<>>)
            ELSE IF ~has_object_permission(req.method, store.Recipe[req.id].author,
                                           req.user)
            THEN IF req.user = AnonymousUser
                 THEN Done(store, HTTP_401_UNAUTHORIZED, CredentialsNotProvided, <<>>)
                 ELSE Done(store, HTTP_403_FORBIDDEN, PermissionDeniedDetail, <<>>)
            ELSE Cont(store, [pk |-> req.id] @@ store.Recipe[req.id])
      [] step = "tags_set" ->
            IF Supplied(req, "tags")
            THEN Cont([store EXCEPT
                          !.RecipeTag = tags_set(@, instance.pk, req.data.tags)],
                      instance)
            ELSE Cont(store, instance)
      [] step = "delete" ->
            IF Supplied(req, "recipe_ingredients")
            THEN Cont([store EXCEPT
                          !.RecipeIngredient = delete_ingredients(@, instance.pk)],
                      instance)
            ELSE Cont(store, instance)
      [] step = "bulk_create" ->
            IF ~Supplied(req, "recipe_ingredients") THEN Cont(store, instance)
            ELSE LET rows == ingredient_rows(instance.pk, req.data.recipe_ingredients)
                 IN  IF bulk_create_ok(store.RecipeIngredient, rows)
                     THEN Cont([store EXCEPT !.RecipeIngredient = @ \o rows],
                               instance)
                     ELSE Done(store, HTTP_500_INTERNAL_SERVER_ERROR,
                               IntegrityError, <<>>)
      [] step = "save" ->
            LET saved == setattrs(instance, req.data)
            IN  Cont([store EXCEPT !.Recipe[saved.pk] = RecipeRow(saved)], saved)
      [] step = "represent" ->
            Done(store,
                 IF req.method = "POST" THEN HTTP_201_CREATED ELSE HTTP_200_OK,
                 OK,
                 <<RecipeData(store.Recipe, store.RecipeIngredient, store.RecipeTag,
                              store.FavoriteRecipe, store.ShoppingCartRecipe,
                              instance.pk, req.user)>>)
      [] step = "authenticate" ->
            IF req.user = AnonymousUser
            THEN Done(store, HTTP_401_UNAUTHORIZED, NotAuthenticatedDetail, <<>>)
            ELSE Cont(store, instance)
      [] step = "get_recipe" ->
            IF req.id \notin DOMAIN store.Recipe
            THEN Done(store, HTTP_404_NOT_FOUND, NotFoundDetail, <<>>)
            ELSE Cont(store, [NoInstance EXCEPT !.pk = req.id])
      [] step = "validate_relation" ->
            IF recipe_action_validate(store[Model(req)], req.user, instance.pk) # OK
            THEN Done(store, HTTP_400_BAD_REQUEST, AlreadyAdded, <<>>)
            ELSE Cont(store, instance)
      [] step = "save_relation" ->
            LET table == store[Model(req)] \o
                         <<[user |-> req.user, recipe |-> instance.pk]>>
            IN  IF unique_user_recipe(table)
                THEN Cont([store EXCEPT ![Model(req)] = table], instance)
                ELSE Done(store, HTTP_500_INTERNAL_SERVER_ERROR, IntegrityError, <<>>)
      [] step = "represent_short" ->
            LET full_data == RecipeData(store.Recipe, store.RecipeIngredient,
                                        store.RecipeTag, store.FavoriteRecipe,
                                        store.ShoppingCartRecipe, instance.pk, req.user)
            IN  Done(store, HTTP_201_CREATED, OK,
                     <<[key \in {"id", "name", "image", "cooking_time"} |->
                           full_data[key]]>>)
      [] step = "exists" ->
            IF ~exists(store[Model(req)], req.user, instance.pk)
            THEN Done(store, HTTP_400_BAD_REQUEST, NotInList, <<>>)
            ELSE Cont(store, instance)
      [] step = "delete_relation" ->
            Done([store EXCEPT ![Model(req)] =
                     delete_relation(@, req.user, instance.pk)],
                 HTTP_204_NO_CONTENT, OK, <<>>)
      [] step = "destroy" ->
            Done(destroy(store, instance.pk), HTTP_204_NO_CONTENT, OK, <<>>)
      [] step = "list" ->
            Done(store, HTTP_200_OK, OK,
                 Map(filter_queryset(store, req), LAMBDA id :
                     RecipeData(store.Recipe, store.RecipeIngredient,
                                store.RecipeTag, store.FavoriteRecipe,
                                store.ShoppingCartRecipe, id, req.user)))
      [] step = "cache_set" ->
            Cont([store EXCEPT
                     !.cache = cache_set(@, Join("", short_code(full_url(req))),
                                         full_url(req), TIMEOUT)],
                 instance)
      [] step = "short_link" ->
            Done(store, HTTP_200_OK, OK, <<"short-link" :> short_link(req)>>)
      [] step = "get_author" ->
            IF req.data.author \notin Users
            THEN Done(store, HTTP_404_NOT_FOUND, NotFoundDetail, <<>>)
            ELSE Cont(store, instance)
      [] step = "validate_subscription" ->
            LET detail == subscription_validate(store.Subscription, req.user,
                                                req.data.author)
            IN  IF detail # OK
                THEN Done(store, HTTP_400_BAD_REQUEST, detail, <<>>)
                ELSE Cont(store, instance)
      [] step = "save_subscription" ->
            LET table == store.Subscription \o
                         <<[user |-> req.user, author |-> req.data.author]>>
            IN  IF subscription_save(req.user, req.data.author) # OK
                THEN Done(store, HTTP_500_INTERNAL_SERVER_ERROR,
                          DjangoValidationError, <<>>)
                ELSE IF unique_user_author(table)
                THEN Cont([store EXCEPT !.Subscription = table], instance)
                ELSE Done(store, HTTP_500_INTERNAL_SERVER_ERROR, IntegrityError, <<>>)
      [] step = "represent_subscription" ->
            Done(store, HTTP_201_CREATED, OK,
                 <<SubscriptionData(store, req.data.author, req.user)>>)
      [] step = "delete_subscription" ->
            LET r == delete_subscription(store.Subscription, req.user,
                                         req.data.author)
            IN  IF r.deleted = 0
                THEN Done(store, HTTP_400_BAD_REQUEST, NoSubscription, <<>>)
                ELSE Done([store EXCEPT !.Subscription = r.table],
                          HTTP_204_NO_CONTENT, OK, <<>>)
      [] OTHER ->
            Done(store, HTTP_200_OK, OK,
                 <<download_shopping_cart(store.RecipeIngredient,
                                          store.ShoppingCartRecipe, req.user, req.plan)>>)

\* A whole handler: its steps one after the other, from step i on.
RECURSIVE Run(_, _, _, _)
Run(store, req, instance, i) ==
    LET r == exec(store, req, instance, Program(req)[i])
    IN  IF r.done THEN r ELSE Run(r.store, req, r.instance, i + 1)

(***************************************************************************)
(* Inputs.                                                                 *)
(***************************************************************************)
Idle == [busy |-> FALSE, req |-> Request("", "", "", 0, NoData, "first"),
         pc |-> 0, instance |-> NoInstance]

Workers == {"w1", "w2"}

NoResponse ==
    [req |-> Idle.req, status |-> 0, detail |-> OK, body |-> <<>>]

Init ==
    /\ Recipe = <<>>
    /\ RecipeIngredient = <<>>
    /\ RecipeTag = <<>>
    /\ FavoriteRecipe = <<>>
    /\ ShoppingCartRecipe = <<>>
    /\ next_pk = 1
    /\ Subscription = <<>>
    /\ cache = <<>>
    /\ links = {}
    /\ response = NoResponse
    /\ before = Store
    /\ worker = [w \in Workers |-> Idle]

\* The tables after a handler that ended in state r.
Commit(r) ==
    /\ Recipe' = r.store.Recipe
    /\ RecipeIngredient' = r.store.RecipeIngredient
    /\ RecipeTag' = r.store.RecipeTag
    /\ FavoriteRecipe' = r.store.FavoriteRecipe
    /\ ShoppingCartRecipe' = r.store.ShoppingCartRecipe
    /\ next_pk' = r.store.next_pk
    /\ Subscription' = r.store.Subscription
    /\ cache' = r.store.cache

Answer(req, r) ==
    /\ response' = [req |-> req, status |-> r.status, detail |-> r.detail,
                    body |-> r.body]
    /\ links' = IF req.view = "get_short_link"
                THEN links \cup {[full_url |-> full_url(req),
                                  short_link |-> r.body[1]["short-link"],
                                  again |-> \E l \in links :
                                               l.full_url = full_url(req)]}
                ELSE links

\* One request handled from its first step to its response.
Handle(req) ==
    LET r == Run(Store, req, NoInstance, 1)
    IN  /\ \A w \in Workers : ~worker[w].busy
        /\ Commit(r)
        /\ Answer(req, r)
        /\ before' = Store
        /\ UNCHANGED worker

(***************************************************************************)
(* The same handlers one statement at a time.  Django runs each statement  *)
(* in its own transaction (autocommit; no transaction.atomic in the        *)
(* handlers), so the tables between two steps are what other requests see  *)
(* and what stays when the request dies.                                   *)
(***************************************************************************)
StorageFailure == "OperationalError"

\* A worker takes a request.
Begin(w, req) ==
    /\ ~worker[w].busy
    /\ worker' = [worker EXCEPT ![w] =
                     [busy |-> TRUE, req |-> req, pc |-> 1, instance |-> NoInstance]]
    /\ before' = Store
    /\ UNCHANGED <<db, response, links>>

\* The next statement of the request of worker w.
Step(w) ==
    /\ worker[w].busy
    /\ LET r == exec(Store, worker[w].req, worker[w].instance,
                     Program(worker[w].req)[worker[w].pc])
       IN  /\ Commit(r)
           /\ IF r.done
              THEN /\ Answer(worker[w].req, r)
                   /\ worker' = [worker EXCEPT ![w] = Idle]
              ELSE /\ worker' = [worker EXCEPT ![w].pc = @ + 1,
                                               ![w].instance = r.instance]
                   /\ UNCHANGED <<response, links>>
    /\ UNCHANGED before

\* The next statement of worker w raises (the database is gone, the image
\* cannot be stored): the request ends with a server error.
Fault(w) ==
    /\ worker[w].busy
    /\ response' = [req |-> worker[w].req,
                    status |-> HTTP_500_INTERNAL_SERVER_ERROR,
                    detail |-> StorageFailure, body |-> <<>>]
    /\ worker' = [worker EXCEPT ![w] = Idle]
    /\ UNCHANGED <<db, before, links>>

(***************************************************************************)
(* Requests.                                                               *)
(***************************************************************************)
\* POST /recipes/
CreateRecipe(user, data, cap) ==
    /\ next_pk <= cap
    /\ Handle(Request("recipes", "POST", user, 0, data, "first"))

\* PUT or PATCH /recipes/{id}/
UpdateRecipe(user, id, method, data) ==
    /\ method \in {"PUT", "PATCH"}
    /\ Handle(Request("recipes", method, user, id, data, "first"))

\* DELETE /recipes/{id}/
DestroyRecipe(user, id) ==
    /\ id \in Nat
    /\ Handle(Request("recipes", "DELETE", user, id, NoData, "first"))

\* POST or DELETE /recipes/{id}/favorite/
add_recipe_to_favorite(user, id, method) ==
    /\ method \in {"POST", "DELETE"}
    /\ Handle(Request("favorite", method, user, id, NoData, "first"))

\* POST or DELETE /recipes/{id}/shopping_cart/
add_recipe_to_shopping_cart(user, id, method) ==
    /\ method \in {"POST", "DELETE"}
    /\ Handle(Request("shopping_cart", method, user, id, NoData, "first"))

\* GET /recipes/download_shopping_cart/
DownloadShoppingCart(user, plan) ==
    /\ plan \in Plans
    /\ Handle(Request("download_shopping_cart", "GET", user, 0, NoData, plan))

\* GET /recipes/?is_favorited=..&is_in_shopping_cart=..
list(user, favorited, in_cart) ==
    /\ {favorited, in_cart} \subseteq STRING
    /\ Handle(Request("list", "GET", user, 0, Query(favorited, in_cart), "first"))

\* GET /recipes/{pk}/get-link/
get_short_link(user, host, pk) ==
    /\ pk \in Nat
    /\ Handle(Request("get_short_link", "GET", user, 0, [host |-> host, pk |-> pk],
                      "first"))

\* Half a day passes: cache entries lose that much of their timeout.  The
\* last answer is no longer the latest event.
Elapse ==
    /\ cache' = expire(cache, TIMEOUT \div 2)
    /\ response' = NoResponse
    /\ UNCHANGED <<Recipe, RecipeIngredient, RecipeTag, FavoriteRecipe,
                   ShoppingCartRecipe, next_pk, Subscription, links,
                   before, worker>>

\* POST or DELETE /users/{id}/subscribe/
subscribe(user, id, method) ==
    /\ method \in {"POST", "DELETE"}
    /\ Handle(Request("subscribe", method, user, 0, [author |-> id], "first"))

(***************************************************************************)
(* Recipe write workflow.  The payloads vary one field at a time around a  *)
(* valid base payload: every ingredient list of up to two items, every tag *)
(* list of up to two tags, each of the three checked fields absent, and    *)
(* one payload that differs from the base in both lists.                   *)
(* User u1 sends all of them; u2 and the anonymous requester send the base *)
(* payload and one with a repeated ingredient.                             *)
(***************************************************************************)
MaxWriteRecipes == 1

BaseItem == [ingredient |-> 1, amount |-> MIN_INGREDIENT_AMOUNT]
BaseIngredients == <<BaseItem>>
BaseTags == <<1>>
OtherIngredients == <<[ingredient |-> 2, amount |-> MIN_INGREDIENT_AMOUNT]>>
OtherTags == <<2>>

Full(ings, tgs) == Payload(FieldNames, ings, tgs, "a.png", "n1", "t1", 10)

WriteItems ==
    {i \in IngredientItems :
        i.ingredient = 1 \/ (i.ingredient = 2 /\ i.amount = MIN_INGREDIENT_AMOUNT)}

WritePayloads ==
    {Full(ings, BaseTags) : ings \in SeqsUpTo2(WriteItems)}
    \cup {Full(BaseIngredients, tgs) : tgs \in SeqsUpTo2(TagIds)}
    \cup {Full(OtherIngredients, OtherTags)}
    \cup {Payload(FieldNames \ {f}, BaseIngredients, BaseTags, "a.png", "n1", "t1", 10) :
            f \in {"recipe_ingredients", "tags", "image"}}

RepeatedIngredient == Full(<<BaseItem, [BaseItem EXCEPT !.amount = MaxAmount]>>, BaseTags)

OtherPayloads == {Full(BaseIngredients, BaseTags), RepeatedIngredient}

WriteCreates ==
    ({"u1"} \X WritePayloads) \cup ({"u2", AnonymousUser} \X OtherPayloads)

WriteUpdates ==
    ({"u1"} \X {"PATCH"} \X WritePayloads)
    \cup ({"u1"} \X {"PUT"} \X
            (OtherPayloads \cup {Payload(FieldNames \ {"name"}, BaseIngredients,
                                         BaseTags, "a.png", "n1", "t1", 10)}))
    \cup ({"u2", AnonymousUser} \X {"PATCH"} \X OtherPayloads)

NextWrite ==
    \/ \E c \in WriteCreates : CreateRecipe(c[1], c[2], MaxWriteRecipes)
    \/ \E u \in WriteUpdates, id \in 1..MaxWriteRecipes :
          UpdateRecipe(u[1], id, u[2], u[3])

SpecWrite == Init /\ [][NextWrite]_vars

(***************************************************************************)
(* Properties of the write workflow.                                       *)
(***************************************************************************)
recipe_ingredients(store, id) ==
    SelectSeq(store.RecipeIngredient, LAMBDA row : row.recipe = id)

recipe_tags(store, id) ==
    SelectSeq(store.RecipeTag, LAMBDA row : row.recipe = id)

IngredientsOf(rows) == {row.ingredient : row \in Range(rows)}
JoinPairs(rows) == {<<row.ingredient, row.amount>> : row \in Range(rows)}
ItemPairs(items) == {<<i.ingredient, i.amount>> : i \in Range(items)}
TagsOf(rows) == {row.tag : row \in Range(rows)}

IsCreate == response.req.view = "recipes" /\ response.req.method = "POST"
IsUpdate == response.req.view = "recipes" /\ response.req.method \in {"PUT", "PATCH"}
Accepted == response.status \in {HTTP_200_OK, HTTP_201_CREATED}

\* The update reached the serializer: the recipe exists and the requester
\* is its author.
ByAuthor ==
    /\ response.req.id \in DOMAIN before.Recipe
    /\ before.Recipe[response.req.id].author = response.req.user

RepeatsIngredient(data) ==
    ~NoRepeat(Map(data.recipe_ingredients, LAMBDA i : i.ingredient))

\* C2: an accepted update that supplies an ingredient list leaves the recipe
\* with exactly the supplied joins, one row per supplied item and nothing of
\* the prior set, and one that supplies a tag list leaves it with exactly the
\* supplied tags.
FullReplacement ==
    (IsUpdate /\ Accepted) =>
        LET data == response.req.data
            joins == recipe_ingredients(Store, response.req.id)
            tags == recipe_tags(Store, response.req.id)
        IN  /\ "recipe_ingredients" \in data.keys =>
                /\ JoinPairs(joins) = ItemPairs(data.recipe_ingredients)
                /\ Len(joins) = Len(data.recipe_ingredients)
            /\ "tags" \in data.keys =>
                /\ TagsOf(tags) = Range(data.tags)
                /\ Len(tags) = Len(data.tags)

\* An accepted update whose lists drop an ingredient and a tag the recipe had.
FullReplacementWitness ==
    /\ IsUpdate /\ Accepted
    /\ IngredientsOf(recipe_ingredients(before, response.req.id))
         \ IngredientsOf(recipe_ingredients(Store, response.req.id)) # {}
    /\ TagsOf(recipe_tags(before, response.req.id))
         \ TagsOf(recipe_tags(Store, response.req.id)) # {}

\* The payloads C3 speaks of: every field present, at least one ingredient
\* and one tag, none repeated.
ValidPayload(data) ==
    /\ data.keys = FieldNames
    /\ data.recipe_ingredients # <<>>
    /\ ~RepeatsIngredient(data)
    /\ data.tags # <<>>
    /\ NoRepeat(data.tags)

\* C3: a valid create payload from an authenticated user is accepted, and
\* the returned recipe, which is the persisted one, has exactly the input
\* (ingredient, amount) pairs and tags and the requester as author.
CreateReturnsInput ==
    (IsCreate /\ ValidPayload(response.req.data)
        /\ response.req.user # AnonymousUser) =>
        /\ response.status = HTTP_201_CREATED
        /\ Len(response.body) = 1
        /\ LET data == response.req.data
               body == response.body[1]
           IN  /\ body.id \in DOMAIN Recipe \ DOMAIN before.Recipe
               /\ {<<i.id, i.amount>> : i \in Range(body.ingredients)}
                    = ItemPairs(data.recipe_ingredients)
               /\ Len(body.ingredients) = Len(data.recipe_ingredients)
               /\ {t.id : t \in Range(body.tags)} = Range(data.tags)
               /\ Len(body.tags) = Len(data.tags)
               /\ body.author = response.req.user
               /\ Recipe[body.id].author = response.req.user
               /\ JoinPairs(recipe_ingredients(Store, body.id))
                    = ItemPairs(data.recipe_ingredients)
               /\ TagsOf(recipe_tags(Store, body.id)) = Range(data.tags)

\* A create answered with a recipe of two ingredients of different amounts.
CreateReturnsInputWitness ==
    /\ IsCreate /\ response.status = HTTP_201_CREATED
    /\ Len(response.body[1].ingredients) = 2
    /\ response.body[1].ingredients[1].amount # response.body[1].ingredients[2].amount

\* C4: a create or update whose ingredient list repeats an ingredient is
\* refused and changes no table, whatever the amounts; when it reaches the
\* serializer the refusal is the validation error.
DuplicateIngredientRejected ==
    ((IsCreate \/ IsUpdate) /\ RepeatsIngredient(response.req.data)) =>
        /\ ~Accepted
        /\ Store = before
        /\ (IsCreate \/ ByAuthor) => response.status = HTTP_400_BAD_REQUEST

\* The author's update with one ingredient listed under two amounts.
DuplicateIngredientWitness ==
    /\ IsUpdate /\ ByAuthor
    /\ response.req.data = RepeatedIngredient
    /\ response.detail = IngredientsNotUnique

BadLists(data) ==
    \/ data.recipe_ingredients = <<>>
    \/ data.tags = <<>>
    \/ RepeatsIngredient(data)
    \/ ~NoRepeat(data.tags)

\* C5: every persisted recipe has at least one ingredient join and one tag
\* association and none twice, and a create or update with an empty or
\* absent ingredient or tag list or a repeated entry changes no table.
RecipesWellFormed ==
    /\ \A id \in DOMAIN Recipe :
          /\ recipe_ingredients(Store, id) # <<>>
          /\ recipe_tags(Store, id) # <<>>
          /\ NoRepeat(Map(recipe_ingredients(Store, id), LAMBDA row : row.ingredient))
          /\ NoRepeat(Map(recipe_tags(Store, id), LAMBDA row : row.tag))
    /\ ((IsCreate \/ IsUpdate) /\ BadLists(response.req.data)) =>
          /\ ~Accepted
          /\ Store = before

\* The author's update without a tag list, refused, on a stored recipe.
RecipesWellFormedWitness ==
    /\ IsUpdate /\ ByAuthor
    /\ "tags" \notin response.req.data.keys
    /\ response.detail = NoTags
    /\ response.req.id \in DOMAIN Recipe

(***************************************************************************)
(* Partial updates: PATCH requests of the author that leave out up to two  *)
(* fields of a payload that differs from the stored recipe in every field. *)
(***************************************************************************)
PartialPayloads ==
    {Payload(FieldNames \ absent, OtherIngredients, OtherTags, "b.png", "n2", "t2", 20) :
        absent \in {S \in SUBSET FieldNames : Cardinality(S) <= 2}}

PartialUpdates ==
    ({"u1"} \X {"PATCH"} \X (PartialPayloads \cup {Full(BaseIngredients, BaseTags)}))
    \cup ({"u1"} \X {"PUT"} \X {Full(BaseIngredients, BaseTags)})
    \cup ({"u2"} \X {"PATCH"} \X {Full(OtherIngredients, OtherTags)})

NextPartial ==
    \/ \E user \in Users :
          CreateRecipe(user, Full(BaseIngredients, BaseTags), MaxWriteRecipes)
    \/ \E u \in PartialUpdates, id \in 1..MaxWriteRecipes :
          UpdateRecipe(u[1], id, u[2], u[3])

SpecPartial == Init /\ [][NextPartial]_vars

ScalarFields == {"name", "text", "cooking_time"}
CheckedFields == {"recipe_ingredients", "tags", "image"}

IsPatchByAuthor == IsUpdate /\ response.req.method = "PATCH" /\ ByAuthor

MaxRelationRecipes == 1

RelationToggles ==
    Requesters \X {"favorite", "shopping_cart"} \X {"POST", "DELETE"}

NextRelation ==
    \/ CreateRecipe("u1", Full(BaseIngredients, BaseTags), MaxRelationRecipes)
    \/ \E t \in {t \in RelationToggles : t[2] = "favorite"},
          id \in 1..MaxRelationRecipes :
          add_recipe_to_favorite(t[1], id, t[3])
    \/ \E t \in {t \in RelationToggles : t[2] = "shopping_cart"},
          id \in 1..MaxRelationRecipes :
          add_recipe_to_shopping_cart(t[1], id, t[3])

SpecRelation == Init /\ [][NextRelation]_vars

IsToggle(method) ==
    /\ response.req.view \in {"favorite", "shopping_cart"}
    /\ response.req.method = method
    /\ response.req.user # AnonymousUser
    /\ response.req.id \in DOMAIN before.Recipe

Pair == [user |-> response.req.user, recipe |-> response.req.id]

Rows(table, pair) == {i \in DOMAIN table : table[i] = pair}

OtherTablesKept ==
    \A t \in DOMAIN Store : t # Model(response.req) => Store[t] = before[t]

\* C7: an add for an existing recipe fails with 400 and changes nothing
\* when the pair is a member already; otherwise it inserts the pair and
\* answers 201 with the recipe's id, name, image and cooking time only.
RelationAdd ==
    IsToggle("POST") =>
        LET m == Model(response.req)
        IN  IF Rows(before[m], Pair) # {}
            THEN /\ response.status = HTTP_400_BAD_REQUEST
                 /\ Store = before
            ELSE /\ response.status = HTTP_201_CREATED
                 /\ Store[m] = Append(before[m], Pair)
                 /\ OtherTablesKept
                 /\ response.body =
                      <<[id |-> Pair.recipe,
                         name |-> Recipe[Pair.recipe].name,
                         image |-> Recipe[Pair.recipe].image,
                         cooking_time |-> Recipe[Pair.recipe].cooking_time]>>

\* The second add of a favorite by the same user, refused.
RelationAddWitness ==
    /\ IsToggle("POST")
    /\ response.req.view = "favorite"
    /\ response.status = HTTP_400_BAD_REQUEST
    /\ Rows(FavoriteRecipe, Pair) # {}

\* C8: a remove without a membership row fails with 400 and changes
\* nothing; otherwise it deletes that row and no other (204), the pair is
\* no member any more and an add of the same pair then succeeds.
RelationRemove ==
    IsToggle("DELETE") =>
        LET m == Model(response.req)
        IN  IF Rows(before[m], Pair) = {}
            THEN /\ response.status = HTTP_400_BAD_REQUEST
                 /\ Store = before
            ELSE /\ response.status = HTTP_204_NO_CONTENT
                 /\ Rows(Store[m], Pair) = {}
                 /\ Store[m] = SelectSeq(before[m], LAMBDA row : row # Pair)
                 /\ OtherTablesKept
                 /\ Run(Store, [response.req EXCEPT !.method = "POST"],
                        NoInstance, 1).status = HTTP_201_CREATED

\* A favorite removed while another user's favorite of the recipe stays.
RelationRemoveWitness ==
    /\ IsToggle("DELETE")
    /\ response.status = HTTP_204_NO_CONTENT
    /\ Len(Store[Model(response.req)]) = 1

(***************************************************************************)
(* Shopping list: recipes of the spec's example (flour 1 g; flour 2 g and  *)
(* eggs 1 pcs) and one with flour under a second unit; u1 puts any of them *)
(* in the cart, u2 the first one; every requester downloads.               *)
(***************************************************************************)
CartIngredientLists ==
    {<<[ingredient |-> 1, amount |-> MIN_INGREDIENT_AMOUNT]>>,
     <<[ingredient |-> 1, amount |-> MaxAmount],
       [ingredient |-> 2, amount |-> MIN_INGREDIENT_AMOUNT]>>,
     <<[ingredient |-> 3, amount |-> MIN_INGREDIENT_AMOUNT],
       [ingredient |-> 1, amount |-> MIN_INGREDIENT_AMOUNT]>>}

NextCart ==
    \/ \E ings \in CartIngredientLists :
          CreateRecipe("u1", Full(ings, BaseTags), MaxRecipes)
    \/ \E id \in 1..MaxRecipes, method \in {"POST", "DELETE"} :
          add_recipe_to_shopping_cart("u1", id, method)
    \/ \E method \in {"POST", "DELETE"} :
          add_recipe_to_shopping_cart("u2", 1, method)
    \/ \E user \in Requesters, plan \in Plans : DownloadShoppingCart(user, plan)

SpecCart == Init /\ [][NextCart]_vars

IsDownload ==
    /\ response.req.view = "download_shopping_cart"
    /\ response.req.user # AnonymousUser

\* The recipes in the requester's cart, as a set.
CartRecipes == {row.recipe : row \in {r \in Range(ShoppingCartRecipe) :
                                         r.user = response.req.user}}

\* The joins of the recipes in the cart (by position in the table).
CartJoins == {i \in DOMAIN RecipeIngredient : RecipeIngredient[i].recipe \in CartRecipes}

NameUnit(i) ==
    <<Ingredient[RecipeIngredient[i].ingredient].name,
      Ingredient[RecipeIngredient[i].ingredient].measurement_unit>>

RECURSIVE Total(_)
Total(joins) ==
    IF joins = {} THEN 0
    ELSE LET i == CHOOSE j \in joins : TRUE
         IN  RecipeIngredient[i].amount + Total(joins \ {i})

Line(name, amount, unit) == name \o " - " \o ToString(amount) \o " " \o unit

ExpectedLines ==
    {Line(k[1], Total({i \in CartJoins : NameUnit(i) = k}), k[2]) :
        k \in {NameUnit(i) : i \in CartJoins}}

\* C10: the document is the header followed by exactly one line per
\* (name, unit) pair of the joins of the recipes in the requester's cart,
\* with the sum of those joins' amounts, whatever the order of the cart
\* rows; with an empty cart it is the header alone, answered 200.
ShoppingListSums ==
    IsDownload =>
        /\ response.status = HTTP_200_OK
        /\ \E lines \in [1..Cardinality(ExpectedLines) -> ExpectedLines] :
              /\ Range(lines) = ExpectedLines
              /\ response.body = <<Header \o Join("\n", lines)>>

\* Two cart recipes that share flour in grams: one flour line with the sum.
ShoppingListSumsWitness ==
    /\ IsDownload
    /\ Cardinality(CartRecipes) = 2
    /\ response.body =
         <<Header \o Line("eggs", MIN_INGREDIENT_AMOUNT, "pcs") \o "\n"
             \o Line("flour", MIN_INGREDIENT_AMOUNT + MaxAmount, "g")>>

(***************************************************************************)
(* The write workflow statement by statement, with storage failures: one   *)
(* worker, u1 creating and updating.                                       *)
(***************************************************************************)
TxRequests ==
    {Request("recipes", "POST", "u1", 0, Full(BaseIngredients, BaseTags), "first"),
     Request("recipes", "POST", "u1", 0, Full(OtherIngredients, OtherTags), "first")}
    \cup {Request("recipes", "PATCH", "u1", id, data, "first") :
            id \in 1..MaxWriteRecipes,
            data \in {Full(BaseIngredients, BaseTags),
                      Full(BaseIngredients \o OtherIngredients, BaseTags \o OtherTags),
                      RepeatedIngredient}}

NextTx ==
    \/ \E req \in TxRequests :
          /\ req.method = "POST" => next_pk <= MaxWriteRecipes
          /\ Begin("w1", req)
    \/ Step("w1")
    \/ Fault("w1")

SpecTx == Init /\ [][NextTx]_vars

Quiet == \A w \in Workers : ~worker[w].busy

\* C1: a create or update that fails after it started leaves the tables as
\* they were when the request came in, and no recipe is stored with an
\* empty ingredient or tag set.
WriteIsAtomic ==
    (Quiet /\ (IsCreate \/ IsUpdate)) =>
        /\ ~Accepted => Store = before
        /\ \A id \in DOMAIN Recipe :
              /\ recipe_ingredients(Store, id) # <<>>
              /\ recipe_tags(Store, id) # <<>>

(***************************************************************************)
(* Concurrent relation requests: two workers, u1 adding and removing the   *)
(* same favorite and cart entry.                                           *)
(***************************************************************************)
ConcRequests ==
    {Request("recipes", "POST", "u1", 0, Full(BaseIngredients, BaseTags), "first")}
    \cup {Request(view, method, "u1", id, NoData, "first") :
            view \in {"favorite", "shopping_cart"}, method \in {"POST", "DELETE"},
            id \in 1..MaxRelationRecipes}

NextConc ==
    \/ \E w \in Workers, req \in ConcRequests :
          /\ req.view = "recipes" => (Quiet /\ next_pk <= MaxRelationRecipes)
          /\ Begin(w, req)
    \/ \E w \in Workers : Step(w)

SpecConc == Init /\ [][NextConc]_vars

\* C9: in every state, between the statements of concurrent requests too,
\* each membership table holds at most one row per (user, recipe) pair.
MembershipIsSet ==
    \A table \in {FavoriteRecipe, ShoppingCartRecipe} :
        \A user \in Users, id \in DOMAIN Recipe :
            Cardinality(Rows(table, [user |-> user, recipe |-> id])) <= 1

\* Two adds passed the existence check before either inserted: the second
\* insert was refused by the database, the pair is stored once.
MembershipIsSetWitness ==
    /\ response.req.view \in {"favorite", "shopping_cart"}
    /\ response.req.method = "POST"
    /\ response.detail = IntegrityError
    /\ Cardinality(Rows(Store[Model(response.req)], Pair)) = 1

(***************************************************************************)
(* Subscriptions: both users and the anonymous requester subscribing to    *)
(* and unsubscribing from each user, themselves and an id nobody has; the  *)
(* users publish recipes, which the answer to a subscription lists.        *)
(***************************************************************************)
Authors == Users \cup {NoUser}

NextSubscribe ==
    \/ \E user \in Users :
          CreateRecipe(user, Full(BaseIngredients, BaseTags), MaxRelationRecipes)
    \/ \E user \in Requesters, id \in Authors, method \in {"POST", "DELETE"} :
          subscribe(user, id, method)

SpecSubscribe == Init /\ [][NextSubscribe]_vars

\* A subscribe request of a signed-in user for the id of a user.
IsSubscribe(method) ==
    /\ response.req.view = "subscribe"
    /\ response.req.method = method
    /\ response.req.user # AnonymousUser
    /\ response.req.data.author \in Users

Subscriptions(table, user, author) ==
    {i \in DOMAIN table : table[i] = [user |-> user, author |-> author]}

\* C11: a subscribe request whose target is the requester is refused as a
\* bad request and changes nothing, and no stored subscription has the
\* user as its own author.
SelfSubscriptionFails ==
    /\ \A i \in DOMAIN Subscription : Subscription[i].user # Subscription[i].author
    /\ (IsSubscribe("POST") /\ response.req.user = response.req.data.author) =>
          /\ response.status = HTTP_400_BAD_REQUEST
          /\ response.detail = SelfSubscription
          /\ Store = before

\* u1, subscribed to u2, asks to subscribe to u1 and is refused.
SelfSubscriptionWitness ==
    /\ IsSubscribe("POST")
    /\ response.req.user = "u1" /\ response.req.data.author = "u1"
    /\ response.status = HTTP_400_BAD_REQUEST
    /\ Subscriptions(Subscription, "u1", "u2") # {}

\* C12: a subscribe for a pair that is stored fails with 400 and changes
\* nothing, and so does an unsubscribe for a pair that is not stored; a
\* first subscribe to another user stores the pair, an unsubscribe of a
\* stored pair removes it; no pair is ever stored twice.
SubscriptionIsSet ==
    /\ \A user \in Users, author \in Users :
          Cardinality(Subscriptions(Subscription, user, author)) <= 1
    /\ IsSubscribe("POST") =>
          LET user == response.req.user
              author == response.req.data.author
          IN  IF subscribed(before.Subscription, user, author)
              THEN /\ response.status = HTTP_400_BAD_REQUEST
                   /\ response.detail = AlreadySubscribed
                   /\ Store = before
              ELSE user # author =>
                   /\ response.status = HTTP_201_CREATED
                   /\ Subscription = Append(before.Subscription,
                                            [user |-> user, author |-> author])
    /\ IsSubscribe("DELETE") =>
          LET user == response.req.user
              author == response.req.data.author
          IN  IF subscribed(before.Subscription, user, author)
              THEN /\ response.status = HTTP_204_NO_CONTENT
                   /\ Subscriptions(Subscription, user, author) = {}
                   /\ Subscription = SelectSeq(before.Subscription, LAMBDA row :
                                         row # [user |-> user, author |-> author])
              ELSE /\ response.status = HTTP_400_BAD_REQUEST
                   /\ response.detail = NoSubscription
                   /\ Store = before

\* The second subscribe of u1 to u2, refused, while u2 is subscribed to u1.
SubscriptionIsSetWitness ==
    /\ IsSubscribe("POST")
    /\ response.detail = AlreadySubscribed
    /\ Len(Subscription) = 2
    /\ Subscriptions(Subscription, response.req.user, response.req.data.author) # {}

(***************************************************************************)
(* Recipe listings: u1 publishes recipes and puts them in and takes them   *)
(* out of the favorites, u1 and u2 put the first one in the cart and u2 in *)
(* the favorites; every requester lists with each filter absent, on, and   *)
(* given as a false value.                                                 *)
(***************************************************************************)
TrueValues == {"true"}
FalseValues == {"false", "0"}
FavoritedValues == {"", "true", "0"}
InCartValues == {"", "true", "false"}

NextFilter ==
    \/ CreateRecipe("u1", Full(BaseIngredients, BaseTags), MaxRecipes)
    \/ \E id \in 1..MaxRecipes, method \in {"POST", "DELETE"} :
          add_recipe_to_favorite("u1", id, method)
    \/ add_recipe_to_favorite("u2", 1, "POST")
    \/ \E user \in Users : add_recipe_to_shopping_cart(user, 1, "POST")
    \/ \E user \in Requesters, favorited \in FavoritedValues,
          in_cart \in InCartValues : list(user, favorited, in_cart)

SpecFilter == Init /\ [][NextFilter]_vars

IsList == response.req.view = "list"

Listed == {response.body[i].id : i \in DOMAIN response.body}

Members(table, user) == {row.recipe : row \in {r \in Range(table) : r.user = user}}

\* C13: the anonymous requester who lists with is_favorited or
\* is_in_shopping_cart on is answered 200 with no recipe, whatever is
\* stored, and no table changes.
AnonymousFilterEmpty ==
    (IsList /\ response.req.user = AnonymousUser
        /\ (response.req.data.is_favorited \in TrueValues
            \/ response.req.data.is_in_shopping_cart \in TrueValues)) =>
        /\ response.status = HTTP_200_OK
        /\ response.body = <<>>
        /\ Store = before

\* The anonymous requester lists the favorites while u1 and u2 have some.
AnonymousFilterEmptyWitness ==
    /\ IsList /\ response.req.user = AnonymousUser
    /\ response.req.data.is_favorited \in TrueValues
    /\ response.body = <<>>
    /\ Len(FavoriteRecipe) >= 2
    /\ DOMAIN Recipe # {}

\* C14: for a signed-in requester the listing holds exactly the recipes
\* that are in the requester's favorites when is_favorited is true and in
\* the requester's cart when is_in_shopping_cart is true; a filter that is
\* absent or given a false value (false, 0) restricts nothing.
FiltersAreBoolean ==
    (IsList /\ response.req.user \in Users) =>
        /\ response.status = HTTP_200_OK
        /\ Listed =
             {id \in DOMAIN Recipe :
                /\ response.req.data.is_favorited \in TrueValues =>
                      id \in Members(FavoriteRecipe, response.req.user)
                /\ response.req.data.is_in_shopping_cart \in TrueValues =>
                      id \in Members(ShoppingCartRecipe, response.req.user)}
        /\ Len(response.body) = Cardinality(Listed)

(***************************************************************************)
(* Short links, one request at a time: the anonymous requester and u1 ask  *)
(* for the link of three recipe URLs, two of which share their code, while *)
(* time passes and cache entries expire.                                   *)
(***************************************************************************)
NextLink ==
    \/ \E user \in {AnonymousUser, "u1"}, host \in Hosts, pk \in LinkPks :
          get_short_link(user, host, pk)
    \/ Elapse

SpecLink == Init /\ [][NextLink]_vars

IsLink == response.req.view = "get_short_link"

\* C15: all the short links answered for one URL are the same, before and
\* after its cache entry expired; the link is the request's host, /s/ and
\* a code of eight hexadecimal characters, and right after the request the
\* cache holds the URL under that code for a day.
ShortLinkDeterministic ==
    /\ \A p, q \in links : p.full_url = q.full_url => p.short_link = q.short_link
    /\ IsLink =>
          LET url == full_url(response.req)
              code == short_code(url)
              key == Join("", code)
          IN  /\ response.status = HTTP_200_OK
              /\ Len(code) = 8
              /\ Range(code) \subseteq HexDigits
              /\ response.body[1]["short-link"] =
                    "http://" \o response.req.data.host \o "/s/" \o key
              /\ key \in DOMAIN cache
              /\ cache[key] = [value |-> url, timeout |-> TIMEOUT]

\* A URL asked for again after its entry had expired: the same link, the
\* entry cached anew.
ShortLinkDeterministicWitness ==
    /\ IsLink
    /\ Join("", short_code(full_url(response.req))) \notin DOMAIN before.cache
    /\ \E l \in links : l.full_url = full_url(response.req) /\ l.again
    /\ Join("", short_code(full_url(response.req))) \in DOMAIN cache

(***************************************************************************)
(* Author-only mutation: u1 and u2 publish recipes; every requester sends  *)
(* a PATCH and a PUT with other ingredients, tags and scalar fields and a  *)
(* DELETE to every recipe id.                                              *)
(***************************************************************************)
OtherFull == Payload(FieldNames, OtherIngredients, OtherTags, "b.png", "n2", "t2", 20)

NextAuthor ==
    \/ \E user \in Users :
          CreateRecipe(user, Full(BaseIngredients, BaseTags), MaxRecipes)
    \/ \E user \in Requesters, id \in 1..MaxRecipes, method \in {"PATCH", "PUT"} :
          UpdateRecipe(user, id, method, OtherFull)
    \/ \E user \in Requesters, id \in 1..MaxRecipes : DestroyRecipe(user, id)

SpecAuthor == Init /\ [][NextAuthor]_vars

IsDestroy == response.req.view = "recipes" /\ response.req.method = "DELETE"

\* An update or delete of a stored recipe by someone who is not its author.
ByNonAuthor ==
    /\ IsUpdate \/ IsDestroy
    /\ response.req.id \in DOMAIN before.Recipe
    /\ before.Recipe[response.req.id].author # response.req.user

AuthorKept ==
    \A id \in (DOMAIN Recipe) \cap (DOMAIN Recipe') :
        Recipe'[id].author = Recipe[id].author

IsAnonymousCreate == IsCreate /\ response.req.user = AnonymousUser

AuthorsAreCreators ==
    /\ \A id \in DOMAIN Recipe : Recipe[id].author \in Users
    /\ IsCreate =>
          \A id \in (DOMAIN Recipe) \ (DOMAIN before.Recipe) :
              Recipe[id].author = response.req.user

\* C17 as claimed: every create without an authenticated identity is
\* answered with the authentication error and stores nothing, and every
\* stored recipe has the user who created it as its author.
AnonymousCreateUnauthorized ==
    /\ IsAnonymousCreate =>
          /\ response.status = HTTP_401_UNAUTHORIZED
          /\ response.detail = NotAuthenticatedDetail
          /\ Store = before
    /\ AuthorsAreCreators

\* C17 as the code has it: a create without an authenticated identity
\* stores nothing; it is answered with the authentication error when its
\* payload passes validation and with the validation error when not; every
\* stored recipe has the user who created it as its author.
AnonymousCreateFails ==
    /\ IsAnonymousCreate =>
          /\ Store = before
          /\ IF ValidPayload(response.req.data)
             THEN /\ response.status = HTTP_401_UNAUTHORIZED
                  /\ response.detail = NotAuthenticatedDetail
             ELSE response.status = HTTP_400_BAD_REQUEST
    /\ AuthorsAreCreators

\* A valid create without identity, refused, while a recipe of u1 is stored.
AnonymousCreateFailsWitness ==
    /\ IsAnonymousCreate
    /\ ValidPayload(response.req.data)
    /\ response.status = HTTP_401_UNAUTHORIZED
    /\ response.detail = NotAuthenticatedDetail
    /\ Recipe = before.Recipe

(***************************************************************************)
(* Short links under concurrency: two workers take get-link requests for   *)
(* the three URLs and run them statement by statement while time passes.   *)
(***************************************************************************)
LinkRequests ==
    {Request("get_short_link", "GET", AnonymousUser, 0, [host |-> host, pk |-> pk],
             "first") : host \in Hosts, pk \in LinkPks}

NextLinkConc ==
    \/ \E w \in Workers, req \in LinkRequests :
          /\ req.view = "get_short_link"
          /\ Begin(w, req)
    \/ \E w \in Workers : Step(w)
    \/ Elapse

SpecLinkConc == Init /\ [][NextLinkConc]_vars

CacheKey(req) == Join("", short_code(full_url(req)))

TablesKept ==
    UNCHANGED <<Recipe, RecipeIngredient, RecipeTag, FavoriteRecipe,
                ShoppingCartRecipe, next_pk, Subscription>>

\* Worker w runs the cache.set of its request in this step.
Writes(w) ==
    /\ worker[w].busy
    /\ worker'[w] # worker[w]
    /\ Program(worker[w].req)[worker[w].pc] = "cache_set"

\* A step of a get-link request: the write puts the request's URL under its
\* code, whatever was there, and touches no other key; no other step of the
\* request changes the cache; no step changes a table.
LinkStep ==
    \A w \in Workers :
        (worker'[w] # worker[w]) =>
            /\ TablesKept
            /\ IF Writes(w)
               THEN /\ CacheKey(worker[w].req) \in DOMAIN cache'
                    /\ cache'[CacheKey(worker[w].req)].value = full_url(worker[w].req)
                    /\ \A key \in (DOMAIN cache \cup DOMAIN cache')
                                   \ {CacheKey(worker[w].req)} :
                          key \in DOMAIN cache /\ key \in DOMAIN cache'
                          /\ cache'[key] = cache[key]
               ELSE cache' = cache

\* The URL under a key changes only by the write of a request for that URL.
OnlyWritersChange ==
    \A key \in DOMAIN cache \cap DOMAIN cache' :
        cache'[key].value # cache[key].value =>
            \E w \in Workers :
                /\ Writes(w)
                /\ CacheKey(worker[w].req) = key
                /\ full_url(worker[w].req) = cache'[key].value

\* C18: under every interleaving of get-link requests each request is
\* answered 200, also when another URL has the same code; a request's
\* write puts its URL under its code over whatever was there, so the entry
\* holds the URL of the last request that wrote it; a request changes no
\* other key and no table.
LastWriterWins ==
    /\ [](IsLink => response.status = HTTP_200_OK)
    /\ [][LinkStep /\ OnlyWritersChange]_vars

\* A request has written its URL and is about to answer, and the entry of
\* its code holds the other URL of that code, written after it.
LastWriterWinsWitness ==
    \E w \in Workers :
        /\ worker[w].busy
        /\ Program(worker[w].req)[worker[w].pc] = "short_link"
        /\ CacheKey(worker[w].req) \in DOMAIN cache
        /\ cache[CacheKey(worker[w].req)].value # full_url(worker[w].req)

(***************************************************************************)
(* Frame of the relation toggle: u1 publishes recipes and toggles both     *)
(* relations on every recipe id, stored or not; u2 and the anonymous       *)
(* requester toggle both relations on the first id.                        *)
(***************************************************************************)
NextFrame ==
    \/ CreateRecipe("u1", Full(BaseIngredients, BaseTags), MaxRecipes)
    \/ \E id \in 1..MaxRecipes, method \in {"POST", "DELETE"} :
          add_recipe_to_favorite("u1", id, method)
    \/ \E id \in 1..MaxRecipes, method \in {"POST", "DELETE"} :
          add_recipe_to_shopping_cart("u1", id, method)
    \/ \E user \in {"u2", AnonymousUser}, method \in {"POST", "DELETE"} :
          add_recipe_to_favorite(user, 1, method)
    \/ \E user \in {"u2", AnonymousUser}, method \in {"POST", "DELETE"} :
          add_recipe_to_shopping_cart(user, 1, method)

SpecFrame == Init /\ [][NextFrame]_vars

IsRelation == response.req.view \in {"favorite", "shopping_cart"}

\* The table of the relation kind of the request, and the other tables.
Kind == IF response.req.view = "favorite" THEN "FavoriteRecipe"
        ELSE "ShoppingCartRecipe"

OtherPairs(table) == SelectSeq(table, LAMBDA row : row # Pair)

\* C19: an add or remove, accepted or refused, changes at most the row of
\* its own (user, recipe) pair in the table of its own relation kind: the
\* other kind's table, the rows of other users and other recipes, the
\* recipes and their joins stay; a refused one changes nothing; a toggle
\* of a signed-in user on an id that is no recipe is answered 404.
ToggleFrame ==
    IsRelation =>
        /\ \A t \in DOMAIN Store : t # Kind => Store[t] = before[t]
        /\ OtherPairs(Store[Kind]) = OtherPairs(before[Kind])
        /\ response.status \notin {HTTP_201_CREATED, HTTP_204_NO_CONTENT} =>
              Store = before
        /\ (response.req.user # AnonymousUser
              /\ response.req.id \notin DOMAIN before.Recipe) =>
              /\ response.status = HTTP_404_NOT_FOUND
              /\ Store = before

\* u1 takes the first recipe out of the cart: the favorite of the same pair
\* and the cart rows of u2 and of the second recipe stay.
ToggleFrameWitness ==
    /\ IsRelation
    /\ response.req.view = "shopping_cart" /\ response.req.method = "DELETE"
    /\ response.status = HTTP_204_NO_CONTENT
    /\ Rows(FavoriteRecipe, Pair) # {}
    /\ Len(ShoppingCartRecipe) = 2
    /\ Len(before.ShoppingCartRecipe) = 3

(***************************************************************************)
(* The shopping list against the rest of the system: u1 publishes the      *)
(* recipes of the shopping-list example and puts any of them in the cart,  *)
(* u2 puts the last one in the cart, both mark the first one as favorite,  *)
(* and every requester downloads.                                          *)
(***************************************************************************)
NextOwnCart ==
    \/ \E ings \in CartIngredientLists :
          CreateRecipe("u1", Full(ings, BaseTags), MaxRecipes)
    \/ \E id \in 1..MaxRecipes, method \in {"POST", "DELETE"} :
          add_recipe_to_shopping_cart("u1", id, method)
    \/ \E method \in {"POST", "DELETE"} :
          add_recipe_to_shopping_cart("u2", MaxRecipes, method)
    \/ \E user \in {"u1", "u2"}, method \in {"POST", "DELETE"} :
          add_recipe_to_favorite(user, 1, method)
    \/ \E user \in Requesters, plan \in Plans : DownloadShoppingCart(user, plan)

SpecOwnCart == Init /\ [][NextOwnCart]_vars

\* What the requester owns: the requester's cart rows, and the joins of the
\* recipes in that cart.
OwnCart ==
    SelectSeq(ShoppingCartRecipe, LAMBDA row : row.user = response.req.user)

OwnJoins ==
    SelectSeq(RecipeIngredient, LAMBDA row : row.recipe \in CartRecipes)

\* C20: the document answered to a user is the shopping list of a system
\* that holds nothing but that user's cart rows and the joins of the
\* recipes in it (for one of the orders the database may give to groups of
\* one name), so the carts of other users, the favorites and the recipes
\* outside the cart do not show in it; and a download, by anyone, leaves
\* every table as it was.
OwnCartOnly ==
    /\ IsDownload =>
          \E plan \in Plans :
              response.body =
                  <<download_shopping_cart(OwnJoins, OwnCart, response.req.user, plan)>>
    /\ response.req.view = "download_shopping_cart" => Store = before

\* u1 downloads with the first recipe in the cart while u2's cart holds the
\* second recipe, which has other ingredients, and favorites are stored.
OwnCartOnlyWitness ==
    /\ IsDownload
    /\ response.req.user = "u1"
    /\ CartRecipes = {1}
    /\ [user |-> "u2", recipe |-> 2] \in Range(ShoppingCartRecipe)
    /\ FavoriteRecipe # <<>>
    /\ Len(OwnJoins) < Len(RecipeIngredient)
    /\ response.body # <<download_shopping_cart(
            SelectSeq(RecipeIngredient, LAMBDA row : row.recipe = 2),
            SelectSeq(ShoppingCartRecipe, LAMBDA row : row.user = "u2"),
            "u2", response.req.plan)>>

====
